---- MODULE Spec2Model ----
(***************************************************************************)
(* Model of orders_analytics_task:                                         *)
(*   data/generate_data.py  - the seeded synthetic data generator          *)
(*   py/build_report.py     - the report builder (SQLite + Excel)          *)
(*                                                                         *)
(* Three specifications:                                                   *)
(*   SpecGen    two generator runs with the same arguments, stepped side   *)
(*              by side, each with its own wall-clock "now";               *)
(*   SpecMain   one run of build_report.main, any step of which may raise; *)
(*   SpecReport execute_export_query and build_excel_report applied to     *)
(*              loaded tables.                                             *)
(* sql/export.sql is not among the sources; ExportQuery follows the        *)
(* written specification of the resolution and dedup engine.               *)
(*                                                                         *)
(* Representation.  Money is in cents (round(x, 2) is rounding to a whole  *)
(* number of cents).  Instants are in ticks, TicksPerSec to the second,    *)
(* the sub-second part standing for the microseconds of a datetime.  A     *)
(* formatted timestamp is <<seconds>> and the empty string is <<>>.        *)
(***************************************************************************)
EXTENDS Integers, Sequences, FiniteSets

----------------------------------------------------------------------------
(* Bounds of the model *)

\* args.orders ranges over 0..MaxOrders
MaxOrders == 3
\* identity tokens (args.email) are 0..NumTokens-1
NumTokens == 512
\* orders.csv read by the report functions has at most MaxRawOrders rows
MaxRawOrders == 2
\* orders.csv read by a whole run of build_report.main has at most MaxMainOrders rows
MaxMainOrders == 2
\* an order of orders.csv has between 1 and MaxRawItems rows in order_items.csv
MaxRawItems == 2
\* sellers.csv read by the report builder has NumRawSellers rows
NumRawSellers == 3

(* generate_data.py constants *)

CHANNELS == <<"site", "ozon", "b24">>
STATUSES == <<"created", "paid", "prod_started", "shipped", "delivered", "cancelled">>
nsellers == 30
CATEGORIES == <<"TB", "ST", "CH", "WD", "DR", "SH">>
TicksPerSec == 4
Hour == 3600 * TicksPerSec
Day == 24 * Hour

----------------------------------------------------------------------------
(* Seed stream: random.Random(seed).  The Mersenne Twister is modelled by  *)
(* a full-period linear congruential stream over 0..Modulus-1; a draw      *)
(* advances the stream and reads the new state s as the fraction           *)
(* s / Modulus of [0, 1).                                                  *)

Modulus == 32768
LcgMul == 7089
LcgInc == 19905
HashMul == 24979
HashInc == 138

Nxt(s) == (LcgMul * s + LcgInc) % Modulus

\* hashlib.sha256(email).hexdigest()[:16] as an integer: a mixing of the token
sha256_prefix(email) == (HashMul * email + HashInc) % Modulus

seeded_rng(email) == sha256_prefix(email)

\* rng.random() < num/den
RandomBelow(s, num, den) == s * den < num * Modulus

\* rng.randint(a, b), both ends included
Randint(s, a, b) == a + (s * (b - a + 1)) \div Modulus

\* rng.choice(seq)
Choice(s, seq) == seq[1 + (s * Len(seq)) \div Modulus]

\* floor(k * s / Modulus), without forming the product k * s
ScaleFloor(k, s) == (k \div Modulus) * s + ((k % Modulus) * s) \div Modulus

\* round half to even of k * s / Modulus, without forming the product k * s
ScaleRound(k, s) ==
    LET whole == (k \div Modulus) * s + ((k % Modulus) * s) \div Modulus
        rem   == ((k % Modulus) * s) % Modulus
    IN  IF 2 * rem < Modulus THEN whole
        ELSE IF 2 * rem > Modulus THEN whole + 1
        ELSE IF whole % 2 = 0 THEN whole ELSE whole + 1

\* rng.choices(CHANNELS, weights=[0.5, 0.3, 0.2], k=1)[0]
ChooseChannel(s) ==
    IF RandomBelow(s, 50, 100) THEN CHANNELS[1]
    ELSE IF RandomBelow(s, 80, 100) THEN CHANNELS[2]
    ELSE CHANNELS[3]

choose_status(s) ==
    IF RandomBelow(s, 72, 100) THEN "delivered"
    ELSE IF RandomBelow(s, 87, 100) THEN "cancelled"
    ELSE IF RandomBelow(s, 90, 100) THEN "shipped"
    ELSE IF RandomBelow(s, 94, 100) THEN "prod_started"
    ELSE IF RandomBelow(s, 98, 100) THEN "paid"
    ELSE "created"

\* f"ORD-{rng.randrange(10**9, 10**10)}": the ten digits in groups of 4, 3, 3
MintExternalId(s) ==
    LET a  == (9000 * s) \div Modulus
        r1 == (9000 * s) % Modulus
        t  == (1000 * r1) \div Modulus
        r2 == (1000 * r1) % Modulus
        u  == (1000 * r2) \div Modulus
    IN  <<"ORD", 1000 + a, t, u>>

\* faulty variant of rand_date_within: the date is cut to midnight
rand_date_at_midnight(now, days_back, s) ==
    ((now - ScaleFloor(days_back * Day, s)) \div Day) * Day

\* rand_date_within: now - timedelta(seconds=rng.uniform(0, days_back*86400))
rand_date_within(now, days_back, s) == now - ScaleFloor(days_back * Day, s)

\* datetime.isoformat(timespec="seconds"): the sub-second part is dropped
isoformat(t) == <<t \div TicksPerSec>>

\* faulty variant of DeliveredAt: the days are subtracted
DeliveredAtEarlier(date, d, h) == date - d * Day + h * Hour

\* date + timedelta(days=d, hours=h)
DeliveredAt(date, d, h) == date + d * Day + h * Hour

\* round(base_cost * (1 + markup) * qty, 2), markup = rng.uniform(0.15, 0.70)
Revenue(base_cost, qty, s) ==
    base_cost * qty * 115 + ScaleRound(base_cost * qty * 55, s)

\* round(base_cost * qty, 2)
Cost(base_cost, qty) == base_cost * qty * 100

Max(a, b) == IF a >= b THEN a ELSE b

\* round half to even of n/d, d > 0 (\div floors, % is non-negative)
RoundDiv(n, d) ==
    LET q == n \div d
        r == n % d
    IN  IF 2 * r < d THEN q
        ELSE IF 2 * r > d THEN q + 1
        ELSE IF q % 2 = 0 THEN q ELSE q + 1

\* faulty variant of OverrideRevenue: the factor is drawn from uniform(0.3, 1.9)
OverrideRevenueWide(cost, s) ==
    Max(0, (cost \div 10) * 3 + ScaleRound((cost \div 10) * 16, s))

\* max(0.0, round(cost * rng.uniform(0.3, 0.9), 2)); cost is in cents and a
\* multiple of 100, so cost * 0.3 is a whole number of cents
OverrideRevenue(cost, s) ==
    Max(0, (cost \div 10) * 3 + ScaleRound((cost \div 10) * 6, s))

----------------------------------------------------------------------------
(* The generator: generate_data.main *)

VARIABLES
    email,        \* args.email
    n_orders,     \* args.orders
    days_back,    \* args.days
    runA, runB,   \* two runs of main with these arguments
    rpt           \* the report builder's state (SpecReport)

vars == <<email, n_orders, days_back, runA, runB, rpt>>

\* datetime.utcnow().replace(microsecond=0) of the two runs
NowA == 200 * Day
NowChoicesB == {NowA, NowA + TicksPerSec}
DaysChoices == {1, 150}

NewRun(now) ==
    [ pc        |-> "start",
      now       |-> now,
      rng       |-> 0,
      sellers   |-> <<>>,
      orders    |-> <<>>,
      items     |-> <<>>,
      ext_pool  |-> <<>>,
      next_id   |-> 1,
      made      |-> 0,        \* iterations of the orders loop entered
      oid       |-> 0,        \* id of the order whose items are being made
      nitems    |-> 0,        \* items of that order still to make
      overridden |-> {},      \* indexes of the items whose revenue was overridden
      written   |-> FALSE ]   \* the three CSV files are written

SellerName(i) == <<"Seller", i>>

\* lines 32-45: the stream is seeded and the sellers are emitted
StartRun(run) ==
    [run EXCEPT !.pc = "order",
                !.rng = seeded_rng(email),
                !.sellers = [i \in 1..nsellers |-> [id |-> i, name |-> SellerName(i)]]]

\* faulty variant of NextId: the counter is not advanced
NextIdStuck(id) == id

NextId(id) == id + 1

\* lines 60-99: one iteration of the orders loop up to the draw of nitems
MakeOrder(run) ==
    LET s0  == run.rng
        has_pool == Len(run.ext_pool) > 0
        s1  == IF has_pool THEN Nxt(s0) ELSE s0
        make_dup == has_pool /\ RandomBelow(s1, 5, 100)
        s2  == Nxt(s1)
        external_id == IF make_dup THEN Choice(s2, run.ext_pool)
                       ELSE MintExternalId(s2)
        s3  == Nxt(s2)
        date == rand_date_within(run.now, days_back, s3)
        s4  == Nxt(s3)
        channel == ChooseChannel(s4)
        s5  == Nxt(s4)
        s6  == Nxt(s5)
        status == choose_status(s6)
        s7  == Nxt(s6)
        missing == RandomBelow(s7, 5, 1000)
        s8  == IF missing THEN Nxt(s7) ELSE s7
        seller_id == IF missing THEN nsellers + Randint(s8, 1, 3)
                     ELSE Randint(s5, 1, nsellers)
        s9  == Nxt(s8)
        updated0 == date + Randint(s9, 1, 240) * Hour
        delivered == status = "delivered"
        s10 == IF delivered THEN Nxt(s9) ELSE s9
        s11 == IF delivered THEN Nxt(s10) ELSE s10
        delivered_at == DeliveredAt(date, Randint(s10, 2, 30), Randint(s11, 1, 12))
        s12 == IF delivered THEN Nxt(s11) ELSE s11
        late == delivered /\ RandomBelow(s12, 30, 100)
        s13 == IF late THEN Nxt(s12) ELSE s12
        updated_at == IF late THEN delivered_at + Randint(s13, 1, 48) * Hour
                      ELSE updated0
        s14 == Nxt(s13)
        oid == run.next_id
    IN  [run EXCEPT
            !.rng = s14,
            !.ext_pool = IF make_dup THEN @ ELSE Append(@, external_id),
            !.next_id = NextId(oid),
            !.oid = oid,
            !.made = @ + 1,
            !.nitems = Randint(s14, 1, 5),
            !.pc = "item",
            !.orders = Append(@,
                [ id           |-> oid,
                  external_id  |-> external_id,
                  date         |-> isoformat(date),
                  channel      |-> channel,
                  seller_id    |-> seller_id,
                  status       |-> status,
                  updated_at   |-> isoformat(updated_at),
                  delivered_at |-> IF delivered THEN isoformat(delivered_at)
                                   ELSE <<>> ])]

\* lines 100-123: one iteration of the items loop
MakeItem(run) ==
    LET s1 == Nxt(run.rng)
        cat == Choice(s1, CATEGORIES)
        s2 == Nxt(s1)
        sku == <<cat, Randint(s2, 1000, 9999)>>
        s3 == Nxt(s2)
        s4 == Nxt(s3)
        bad_qty == RandomBelow(s4, 1, 100)
        s5 == IF bad_qty THEN Nxt(s4) ELSE s4
        qty == IF bad_qty THEN Choice(s5, <<0, -1>>) ELSE Randint(s3, 1, 5)
        s6 == Nxt(s5)
        base_cost == Randint(s6, 50, 500)
        s7 == Nxt(s6)
        cost == Cost(base_cost, qty)
        s8 == Nxt(s7)
        override == RandomBelow(s8, 2, 100)
        s9 == IF override THEN Nxt(s8) ELSE s8
        revenue == IF override THEN OverrideRevenue(cost, s9)
                   ELSE Revenue(base_cost, qty, s7)
        left == run.nitems - 1
    IN  [run EXCEPT
            !.rng = s9,
            !.nitems = left,
            !.pc = IF left > 0 THEN "item" ELSE "order",
            !.overridden = IF override THEN @ \cup {Len(run.items) + 1} ELSE @,
            !.items = Append(@,
                [ order_id |-> run.oid,
                  sku      |-> sku,
                  qty      |-> qty,
                  revenue  |-> revenue,
                  cost     |-> cost ])]

\* lines 125-136: the orders loop is over, the CSV files are written
WriteCsv(run) == [run EXCEPT !.pc = "done", !.written = TRUE]

\* what one run does next, by its own position
StepRun(run) ==
    CASE run.pc = "start" -> StartRun(run)
      [] run.pc = "order" /\ run.made < n_orders -> MakeOrder(run)
      [] run.pc = "order" /\ run.made >= n_orders -> WriteCsv(run)
      [] run.pc = "item" -> MakeItem(run)
      [] OTHER -> run

RptIdle == [pc |-> "idle"]

InitGen ==
    /\ email \in 0..(NumTokens - 1)
    /\ n_orders \in 0..MaxOrders
    /\ days_back \in DaysChoices
    /\ runA = NewRun(NowA)
    /\ \E nowB \in NowChoicesB : runB = NewRun(nowB)
    /\ rpt = RptIdle

Both(step_pc) ==
    /\ runA.pc = step_pc
    /\ runA' = StepRun(runA)
    /\ runB' = StepRun(runB)
    /\ UNCHANGED <<email, n_orders, days_back, rpt>>

GenStart == Both("start")

GenOrder == runA.made < n_orders /\ Both("order")

GenItem == Both("item")

GenWrite == runA.made >= n_orders /\ Both("order")

NextGen == GenStart \/ GenOrder \/ GenItem \/ GenWrite

SpecGen == InitGen /\ [][NextGen]_vars

----------------------------------------------------------------------------------------------------------------------------------------
(* The report builder: build_report.py *)

UNKNOWN_SELLER == <<"UNKNOWN_SELLER", 0>>
status_order == <<"created", "paid", "prod_started", "shipped", "delivered">>

SecsPerDay == 86400
\* the instant of the query, and the dates an order of orders.csv can carry
ReportNow == <<3 * SecsPerDay>>
RawDates == {<<1 * SecsPerDay>>, <<2 * SecsPerDay>>}
RawExternalIds == {<<"ORD", 1000, 0, 1>>, <<"ORD", 1000, 0, 2>>}
ReportDays == {1, 2}

Range(seq) == {seq[i] : i \in 1..Len(seq)}

RECURSIVE SumOver(_, _)
\* sum of f[x] over the finite set S
SumOver(f, S) ==
    IF S = {} THEN 0
    ELSE LET x == CHOOSE y \in S : TRUE IN f[x] + SumOver(f, S \ {x})

RECURSIVE Ascending(_)
\* the integers of S in ascending order
Ascending(S) ==
    IF S = {} THEN <<>>
    ELSE LET m == CHOOSE x \in S : \A y \in S : x <= y
         IN  <<m>> \o Ascending(S \ {m})

\* seq[i] for the indexes i of S, in sequence order
Take(seq, S) == LET idx == Ascending(S) IN [k \in 1..Len(idx) |-> seq[idx[k]]]

(* sql/export.sql, read by execute_export_query: seller resolution,        *)
(* duplicate collapse, window filter, item-grain rows                      *)

\* LEFT JOIN sellers, COALESCE(name, 'UNKNOWN_SELLER')
ResolveSeller(sellers, seller_id) ==
    IF \E i \in 1..Len(sellers) : sellers[i].id = seller_id
    THEN (CHOOSE s \in Range(sellers) : s.id = seller_id).name
    ELSE UNKNOWN_SELLER

\* o is the order kept for its external_id: most recent date, then highest id
KeptForExternalId(orders, o) ==
    \A p \in Range(orders) :
        p.external_id = o.external_id =>
            \/ p.date[1] < o.date[1]
            \/ p.date[1] = o.date[1] /\ p.id <= o.id

\* the order's date is within the trailing window of `days` days
InWindow(o, days) == o.date[1] >= ReportNow[1] - days * SecsPerDay

ExportRow(sellers, o, it) ==
    [ order_id    |-> o.id,
      external_id |-> o.external_id,
      date        |-> o.date,
      channel     |-> o.channel,
      seller      |-> ResolveSeller(sellers, o.seller_id),
      status      |-> o.status,
      sku         |-> it.sku,
      qty         |-> it.qty,
      revenue     |-> it.revenue,
      cost        |-> it.cost,
      margin      |-> it.revenue - it.cost ]

ExportQuery(sellers, orders, order_items, days) ==
    LET kept == {o \in Range(orders) :
                    KeptForExternalId(orders, o) /\ InWindow(o, days)}
        sel  == {i \in 1..Len(order_items) :
                    \E o \in kept : o.id = order_items[i].order_id}
        its  == Take(order_items, sel)
    IN  [k \in 1..Len(its) |->
            ExportRow(sellers,
                      CHOOSE o \in kept : o.id = its[k].order_id, its[k])]

(* build_excel_report *)

\* DataFrame.drop_duplicates(): the first occurrence of each row is kept
drop_duplicates(rows) ==
    Take(rows, {i \in 1..Len(rows) : \A j \in 1..(i - 1) : rows[j] # rows[i]})

\* lines 88-95: one Summary row per (channel, seller) present in df, sorted
\* by margin, descending; to_excel(index=False) leaves the group keys out
SummaryGroups(df) == {<<r.channel, r.seller>> : r \in Range(df)}

SummaryRow(df, g) ==
    LET idx == {i \in 1..Len(df) : <<df[i].channel, df[i].seller>> = g}
    IN  [ revenue       |-> SumOver([i \in idx |-> df[i].revenue], idx),
          cost          |-> SumOver([i \in idx |-> df[i].cost], idx),
          margin        |-> SumOver([i \in idx |-> df[i].margin], idx),
          items_count   |-> Cardinality(idx),
          unique_orders |-> Cardinality({df[i].order_id : i \in idx}) ]

\* two groups with equal sums give equal rows after index=False; each is written
RECURSIVE SummaryRows(_, _)
SummaryRows(df, groups) ==
    IF groups = {} THEN <<>>
    ELSE LET top == CHOOSE g \in groups : \A h \in groups :
                        SummaryRow(df, g).margin >= SummaryRow(df, h).margin
         IN  <<SummaryRow(df, top)>> \o SummaryRows(df, groups \ {top})

SummaryDf(df) == SummaryRows(df, SummaryGroups(df))

\* line 104: margin by channel, one row per channel present in df
MarginByChannel(df) ==
    LET present == {i \in 1..Len(CHANNELS) : \E r \in Range(df) : r.channel = CHANNELS[i]}
        idx(c)  == {i \in 1..Len(df) : df[i].channel = c}
        chans   == Take(CHANNELS, present)
    IN  [k \in 1..Len(chans) |->
            [ channel |-> chans[k],
              margin  |-> SumOver([i \in idx(chans[k]) |-> df[i].margin], idx(chans[k])) ]]

\* faulty variant of OrdersDf: drop_duplicates() is left out
OrdersDfPerItem(df) ==
    [i \in 1..Len(df) |-> [order_id |-> df[i].order_id, status |-> df[i].status]]

\* line 108: df[['order_id', 'status']].drop_duplicates()
OrdersDf(df) ==
    drop_duplicates([i \in 1..Len(df) |->
                        [order_id |-> df[i].order_id, status |-> df[i].status]])

\* line 110: value_counts().reindex(status_order, fill_value=0): a count for
\* every state of status_order and for no other status
StatusCounts(orders_df) ==
    [s \in Range(status_order) |->
        Cardinality({i \in 1..Len(orders_df) : orders_df[i].status = s})]

\* Series.get(key, default)
Get(series, key, default) ==
    IF key \in DOMAIN series THEN series[key] ELSE default

\* count / base * 100 formatted with :.1f and a percent sign; the counts are
\* numpy integers, whose division by zero gives nan or inf and does not raise
Percent(count, base) ==
    IF base = 0
    THEN IF count = 0 THEN [kind |-> "nan", tenths |-> 0]
         ELSE [kind |-> "inf", tenths |-> 0]
    ELSE [kind |-> "num", tenths |-> RoundDiv(count * 1000, base)]

\* lines 112-121: the funnel rows, in status_order
RECURSIVE FunnelRows(_, _, _)
FunnelRows(status_counts, k, previous_step_count) ==
    IF k > Len(status_order) THEN <<>>
    ELSE LET status == status_order[k]
             count  == Get(status_counts, status, 0)
             step_conversion ==
                 IF previous_step_count > 0 THEN Percent(count, previous_step_count)
                 ELSE [kind |-> "num", tenths |-> 0]
             total_conversion == Percent(count, Get(status_counts, "created", 1))
         IN  <<[ status           |-> status,
                 count            |-> count,
                 step_conversion  |-> step_conversion,
                 total_conversion |-> total_conversion ]>>
             \o FunnelRows(status_counts, k + 1, count)

FunnelData(df) ==
    LET status_counts == StatusCounts(OrdersDf(df))
    IN  FunnelRows(status_counts, 1, Get(status_counts, "created", 1))

\* faulty variant of DuplicatesInResult: duplicated() is applied to the item rows
DuplicatesInItemRows(df) ==
    {df[i].order_id : i \in
        {i \in 1..Len(df) : \E j \in 1..Len(df) :
            j # i /\ df[j].external_id = df[i].external_id}}

\* lines 148-149: the order ids whose external_id is shared with another order
DuplicatesInResult(df) ==
    LET deduped == drop_duplicates([i \in 1..Len(df) |->
                        [order_id |-> df[i].order_id, external_id |-> df[i].external_id]])
    IN  {deduped[i].order_id : i \in
            {i \in 1..Len(deduped) : \E j \in 1..Len(deduped) :
                j # i /\ deduped[j].external_id = deduped[i].external_id}}

\* lines 151-156: the rows of each check
Checks(df) ==
    [ qty_nonpositive  |-> SelectSeq(df, LAMBDA r : r.qty <= 0),
      negative_margin  |-> SelectSeq(df, LAMBDA r : r.margin < 0),
      missing_seller   |-> SelectSeq(df, LAMBDA r : r.seller = UNKNOWN_SELLER),
      duplicate_external_id |->
          SelectSeq(df, LAMBDA r : r.order_id \in DuplicatesInResult(df)) ]

\* the workbook: the data rows of each sheet's tables
BuildExcelReport(df) ==
    [ Orders    |-> df,
      Summary   |-> SummaryDf(df),
      Dashboard |-> [margin_by_channel |-> MarginByChannel(df),
                     funnel            |-> FunnelData(df)],
      Checks    |-> Checks(df) ]

NoBook == [Orders |-> <<>>, Summary |-> <<>>,
           Dashboard |-> [margin_by_channel |-> <<>>, funnel |-> <<>>],
           Checks |-> [qty_nonpositive |-> <<>>, negative_margin |-> <<>>,
                       missing_seller |-> <<>>, duplicate_external_id |-> <<>>]]

\* faulty variant of EmptyWarning: the test is `report_df is None`
EmptyWarningIfNone(df) == FALSE

\* line 202: report_df.empty
EmptyWarning(df) == df = <<>>

(* the raw tables *)

RawSellers == [i \in 1..NumRawSellers |-> [id |-> i, name |-> SellerName(i)]]

\* the j-th item of an order: the second has qty -1, the third a negative margin
RawItem(order_id, j) ==
    [ order_id |-> order_id,
      sku      |-> <<CATEGORIES[1 + ((order_id + j) % Len(CATEGORIES))], 1000 + j>>,
      qty      |-> IF j = 2 THEN -1 ELSE j,
      revenue  |-> IF j = 3 THEN 3000 ELSE 12000 * j,
      cost     |-> 4000 * j ]

\* the orders an orders.csv row with this id can be; every second order
\* names a seller that sellers.csv does not have
RawOrderChoices(id) ==
    { [ id           |-> id,
        external_id  |-> e,
        date         |-> d,
        channel      |-> CHANNELS[1 + (id % Len(CHANNELS))],
        seller_id    |-> IF id % 2 = 0 THEN nsellers + 1 ELSE 1 + (id % NumRawSellers),
        status       |-> st,
        updated_at   |-> d,
        delivered_at |-> IF st = "delivered" THEN d ELSE <<>> ]
      : e \in RawExternalIds, d \in RawDates, st \in Range(STATUSES) }

RawOrderTables(max) ==
    UNION { {os \in [1..n -> UNION {RawOrderChoices(id) : id \in 1..n}] :
                \A id \in 1..n : os[id].id = id} : n \in 0..max }

RECURSIVE RawItemTable(_, _)
\* order_items.csv: order id has 1 + id % MaxRawItems items, for ids id..n
RawItemTable(id, n) ==
    IF id > n THEN <<>>
    ELSE [j \in 1..(1 + (id % MaxRawItems)) |-> RawItem(id, j)]
         \o RawItemTable(id + 1, n)

(* main *)

NewReport(pc, orders, days, conn, db) ==
    [ pc          |-> pc,
      days        |-> days,                             \* args.days
      sellers     |-> RawSellers,                       \* data/sellers.csv
      orders      |-> orders,                           \* data/orders.csv
      order_items |-> RawItemTable(1, Len(orders)),     \* data/order_items.csv
      conn        |-> conn,       \* main's variable conn: "None" or "conn"
      db          |-> db,         \* the SQLite connection: "none", "open", "closed"
      queried     |-> FALSE,      \* report_df is assigned
      df          |-> <<>>,       \* report_df
      warned      |-> FALSE,      \* the empty-result warning was printed
      book        |-> NoBook,
      saved       |-> FALSE,      \* the workbook file is written
      raised      |-> FALSE,      \* an exception was raised in the try block
      status      |-> -1 ]        \* the value main returns; -1 before a return

\* lines 15-48, success: the connection is open, loaded and bound to conn
SetupOk ==
    /\ rpt.pc = "start"
    /\ rpt' = [rpt EXCEPT !.conn = "conn", !.db = "open", !.pc = "query"]

\* line 18 raises: no connection was opened
SetupFailConnect ==
    /\ rpt.pc = "start"
    /\ rpt' = [rpt EXCEPT !.raised = TRUE, !.pc = "except"]

\* lines 19-47 raise (PRAGMA, schema, a missing or malformed CSV, commit):
\* the connection is open and main's conn is still None
SetupFailAfterConnect ==
    /\ rpt.pc = "start"
    /\ rpt' = [rpt EXCEPT !.db = "open", !.raised = TRUE, !.pc = "except"]

\* lines 51-75 and line 200, success
QueryOk ==
    /\ rpt.pc = "query"
    /\ rpt' = [rpt EXCEPT
                 !.df = ExportQuery(rpt.sellers, rpt.orders, rpt.order_items, rpt.days),
                 !.queried = TRUE,
                 !.pc = "build"]

\* lines 51-75 raise (export.sql missing, an SQL error)
QueryFail ==
    /\ rpt.pc = "query"
    /\ rpt' = [rpt EXCEPT !.raised = TRUE, !.pc = "except"]

\* lines 202-209, success: warning, workbook, return 0
BuildOk ==
    /\ rpt.pc = "build"
    /\ rpt' = [rpt EXCEPT
                 !.warned = EmptyWarning(rpt.df),
                 !.book = BuildExcelReport(rpt.df),
                 !.saved = TRUE,
                 !.status = 0,
                 !.pc = "finally"]

\* lines 202-205, build_excel_report raises (the destination is not writable)
BuildFail ==
    /\ rpt.pc = "build"
    /\ rpt' = [rpt EXCEPT !.warned = EmptyWarning(rpt.df),
                          !.raised = TRUE, !.pc = "except"]

\* lines 211-215: return 1.  A connection that no variable of main holds may
\* or may not have been finalised by the interpreter when the handler ends.
Except ==
    /\ rpt.pc = "except"
    /\ \E reclaimed \in BOOLEAN :
         rpt' = [rpt EXCEPT
                   !.status = 1,
                   !.db = IF rpt.db = "open" /\ rpt.conn = "None" /\ reclaimed
                          THEN "closed" ELSE @,
                   !.pc = "finally"]

\* lines 216-219: if conn: conn.close()
Finally ==
    /\ rpt.pc = "finally"
    /\ rpt' = [rpt EXCEPT !.db = IF rpt.conn # "None" THEN "closed" ELSE @,
                          !.pc = "done"]

GenIdle == [pc |-> "idle"]

GenUnchanged == UNCHANGED <<email, n_orders, days_back, runA, runB>>

GenVarsIdle ==
    /\ email = 0 /\ n_orders = 0 /\ days_back = 0
    /\ runA = GenIdle /\ runB = GenIdle

\* a whole run of main
InitMain ==
    /\ GenVarsIdle
    /\ \E orders \in RawOrderTables(MaxMainOrders), days \in ReportDays :
         rpt = NewReport("start", orders, days, "None", "none")

NextMain ==
    /\ GenUnchanged
    /\ \/ SetupOk \/ SetupFailConnect \/ SetupFailAfterConnect
       \/ QueryOk \/ QueryFail
       \/ BuildOk \/ BuildFail
       \/ Except
       \/ Finally

SpecMain == InitMain /\ [][NextMain]_vars

\* execute_export_query and build_excel_report applied to loaded tables
InitReport ==
    /\ GenVarsIdle
    /\ \E orders \in RawOrderTables(MaxRawOrders), days \in ReportDays :
         rpt = NewReport("query", orders, days, "conn", "open")

NextReport == GenUnchanged /\ (QueryOk \/ BuildOk)

SpecReport == InitReport /\ [][NextReport]_vars

----------------
(* Properties of the generator (SpecGen) *)

Runs == {runA, runB}

ItemsOf(run, id) == {i \in 1..Len(run.items) : run.items[i].order_id = id}

\* C1: for every emitted Order, delivered_at is present if and only if
\* status = delivered, and a present delivered_at is not before the date.
C1_DeliveredInvariant ==
    \A run \in Runs : \A o \in Range(run.orders) :
        /\ (o.delivered_at # <<>>) <=> (o.status = "delivered")
        /\ o.delivered_at # <<>> => o.delivered_at[1] >= o.date[1]

C1_Witness ==
    /\ \E o \in Range(runA.orders) : o.status = "delivered" /\ o.delivered_at # <<>>
    /\ \E o \in Range(runA.orders) : o.status # "delivered" /\ o.delivered_at = <<>>

\* C3: when the generator has finished, order ids are unique, every item's
\* order_id is the id of exactly one order, and every order has between one
\* and five items.
C3_ReferentialCompleteness ==
    \A run \in Runs : run.pc = "done" =>
        /\ Len(run.orders) = n_orders
        /\ \A i, j \in 1..Len(run.orders) :
               run.orders[i].id = run.orders[j].id => i = j
        /\ \A it \in Range(run.items) :
               Cardinality({i \in 1..Len(run.orders) :
                               run.orders[i].id = it.order_id}) = 1
        /\ \A o \in Range(run.orders) :
               /\ Cardinality(ItemsOf(run, o.id)) >= 1
               /\ Cardinality(ItemsOf(run, o.id)) <= 5

C3_Witness ==
    /\ runA.pc = "done"
    /\ Len(runA.orders) = 2
    /\ Cardinality(ItemsOf(runA, 1)) = 5
    /\ Cardinality(ItemsOf(runA, 2)) = 1

\* C4 as stated: two finished runs with the same token, order count and
\* day-window have equal Seller, Order and OrderItem sets, whatever their
\* start instants.
C4_SameOutputs ==
    (runA.pc = "done" /\ runB.pc = "done") =>
        /\ runA.sellers = runB.sellers
        /\ runA.orders = runB.orders
        /\ runA.items = runB.items

\* a formatted timestamp moved by secs seconds
Shifted(stamp, secs) == IF stamp = <<>> THEN <<>> ELSE <<stamp[1] + secs>>

Untimed(o) == [id |-> o.id, external_id |-> o.external_id, channel |-> o.channel,
               seller_id |-> o.seller_id, status |-> o.status]

\* C4 amended: the Seller and OrderItem sets are equal and the Orders agree
\* in every field but the three timestamps; each timestamp of run B is that
\* of run A moved by the difference of the start instants, so runs started
\* at the same instant have equal Order sets too.
C4_SameUpToNow ==
    (runA.pc = "done" /\ runB.pc = "done") =>
        /\ runA.sellers = runB.sellers
        /\ runA.items = runB.items
        /\ Len(runA.orders) = Len(runB.orders)
        /\ \A i \in 1..Len(runA.orders) :
            LET a == runA.orders[i]
                b == runB.orders[i]
                secs == (runB.now - runA.now) \div TicksPerSec
            IN  /\ Untimed(a) = Untimed(b)
                /\ b.date = Shifted(a.date, secs)
                /\ b.updated_at = Shifted(a.updated_at, secs)
                /\ b.delivered_at = Shifted(a.delivered_at, secs)
        /\ runA.now = runB.now => runA.orders = runB.orders

C4_Witness ==
    /\ runA.pc = "done" /\ runB.pc = "done"
    /\ runA.now # runB.now
    /\ Len(runA.orders) = 2
    /\ \E o \in Range(runA.orders) : o.delivered_at # <<>>

\* C8 as stated: every emitted OrderItem has revenue >= 0 and cost >= 0.
C8_NonNegativeAmounts ==
    \A it \in Range(runA.items) : it.revenue >= 0 /\ it.cost >= 0

----------------------------------------------------------------------------
(* Properties of the report builder (SpecReport, SpecMain) *)

Built == rpt.pc \in {"finally", "done"} /\ rpt.saved

DfOrderIds(df) == {r.order_id : r \in Range(df)}

\* the raw orders that pass the window filter
RawInWindow == {o \in Range(rpt.orders) : InWindow(o, rpt.days)}

\* C2: the canonical row set has at most one order_id per external_id, and
\* the "duplicate external_id in export" check selects no row.
C2_NoDuplicateExternalId ==
    Built =>
        /\ \A r, q \in Range(rpt.df) :
               r.external_id = q.external_id => r.order_id = q.order_id
        /\ rpt.book.Checks.duplicate_external_id = <<>>

C2_Witness ==
    /\ Built
    /\ \E o, p \in RawInWindow : o.id # p.id /\ o.external_id = p.external_id
    /\ \E r, q \in Range(rpt.df) : r.order_id = q.order_id /\ r.sku # q.sku

\* the funnel row of a status
FunnelRow(status) ==
    CHOOSE row \in Range(rpt.book.Dashboard.funnel) : row.status = status

\* C5 as stated: the total_conversion of the 'created' row is 100.0% for
\* every canonical row set.
C5_CreatedTotalIs100 ==
    Built => FunnelRow("created").total_conversion = [kind |-> "num", tenths |-> 1000]

\* C9: every funnel count is the number of distinct canonical orders with
\* that status, no count is negative, and the five counts add up to the
\* number of distinct canonical orders that are not cancelled.
C9_FunnelCounts ==
    Built =>
        LET funnel == rpt.book.Dashboard.funnel
            df     == rpt.df
        IN  /\ Len(funnel) = Len(status_order)
            /\ \A k \in 1..Len(funnel) :
                 /\ funnel[k].status = status_order[k]
                 /\ funnel[k].count >= 0
                 /\ funnel[k].count =
                      Cardinality({id \in DfOrderIds(df) : \E r \in Range(df) :
                                     r.order_id = id /\ r.status = status_order[k]})
            /\ SumOver([k \in 1..Len(funnel) |-> funnel[k].count], 1..Len(funnel))
                 = Cardinality({id \in DfOrderIds(df) : \E r \in Range(df) :
                                  r.order_id = id /\ r.status # "cancelled"})

C9_Witness ==
    /\ Built
    /\ \E r, q \in Range(rpt.df) :
          r.order_id = q.order_id /\ r.sku # q.sku /\ r.status # "cancelled"
    /\ \E r \in Range(rpt.df) : r.status = "cancelled"

\* main has returned after a run in which nothing was raised and the query
\* gave no rows
EmptyRun == rpt.pc = "done" /\ ~rpt.raised /\ rpt.df = <<>>

C7_ConnectionClosed ==
    rpt.pc = "done" /\ rpt.db # "none" => rpt.db = "closed"

====
